---- MODULE Spec2Model ----
(***************************************************************************)
(* Model of scripts/daily-digest.js: the date resolver, the matching pass  *)
(* over (event, alert) pairs, the batched dispatcher with its counters and *)
(* pacing delays, and the way the process settles and exits.               *)
(*                                                                         *)
(* Optional values (null / undefined in the script) are encoded as the     *)
(* empty tuple, present values v as the one-element tuple <<v>>.  A query  *)
(* result's data is a sequence; a null data and an empty array coincide,   *)
(* as they do in the script, which only reads `data || []` and             *)
(* `!data?.length`.                                                        *)
(***************************************************************************)
EXTENDS Integers, Sequences, FiniteSets, TLC

VARIABLES
    nowParis,       \* [date, hour, minute]: DateTime.now().setZone("Europe/Paris")
    targetDate,     \* the resolved date, Null before the resolver ran
    eventsRes,      \* [error, data] of the events query
    teamsRes,       \* [error, data] of the teams query
    alertsRes,      \* [error, data] of the alerts query
    usersRes,       \* [error, data] of the users query
    teamsMap,       \* team id -> lowercased team name
    userIdToEmail,  \* user id -> email
    events,         \* eventsRes.data once the mandatory check passed
    matched,        \* the (event index, alert index) pairs whose `match` was true
    userEventsMap,  \* Map user id -> Set of events, as a sequence of entries in insertion order
    i,              \* the batch loop's index
    j,              \* users of the current batch already visited
    sent,
    failed,
    sendResult,     \* how the last sgMail.send settled: "none", "ok" or "error"
    log,            \* the sends and sleeps, in the order they happened
    summary,        \* the counts of the DONE line, Null before it is printed
    errorLogged,    \* console.error ran in main().catch
    exitStatus,     \* the process's exit status, Null while it runs
    pc

vars == <<nowParis, targetDate, eventsRes, teamsRes, alertsRes, usersRes, teamsMap,
          userIdToEmail, events, matched, userEventsMap, i, j, sent, failed,
          sendResult, log, summary, errorLogged, exitStatus, pc>>

-----------------------------------------------------------------------------
(* Bounds of the model. *)

MaxEvents == 2
MaxAlerts == 2
MaxUsers == 12

(* Constants of the script. *)

BATCH_SIZE == 5
DELAY_BETWEEN_BATCHES == 2000
DELAY_BETWEEN_EMAILS == 600
CUTOFF_HOUR == 6
TENNIS == 20
ATP == 1
WTA == 22

Null == <<>>
Some(v) == <<v>>

-----------------------------------------------------------------------------
(* Date resolver. *)

IsLeap(y) == (y % 4 = 0 /\ y % 100 # 0) \/ y % 400 = 0

DaysInMonth(y, m) ==
    IF m = 2 THEN (IF IsLeap(y) THEN 29 ELSE 28)
    ELSE IF m \in {4, 6, 9, 11} THEN 30 ELSE 31

\* nowParis.plus({ days: 1 }): the next civil date.
PlusOneDay(d) ==
    IF d.day < DaysInMonth(d.year, d.month)
    THEN [d EXCEPT !.day = d.day + 1]
    ELSE IF d.month < 12
         THEN [year |-> d.year, month |-> d.month + 1, day |-> 1]
         ELSE [year |-> d.year + 1, month |-> 1, day |-> 1]

BeforeCutoffOffByOne(hour) == hour <= CUTOFF_HOUR

\* nowParis.hour < 6
BeforeCutoff(hour) == hour < CUTOFF_HOUR

ResolveTargetDate(now) ==
    IF BeforeCutoff(now.hour) THEN now.date ELSE PlusOneDay(now.date)

-----------------------------------------------------------------------------
(* Matcher. *)

LowerCaseOf ==
    ("Lakers" :> "lakers") @@ ("lakers" :> "lakers") @@ ("LAKERS" :> "lakers") @@
    ("Celtics" :> "celtics") @@ ("CELTICS" :> "celtics") @@ ("celtics" :> "celtics") @@
    ("Bulls" :> "bulls") @@ ("bulls" :> "bulls") @@
    ("PSG" :> "psg") @@ ("psg" :> "psg") @@ ("OM" :> "om") @@ ("om" :> "om")

\* String.prototype.toLowerCase
ToLowerCase(s) == LowerCaseOf[s]

\* x?.toLowerCase(): undefined for a null or undefined x
OptLowerCase(x) == IF x = Null THEN Null ELSE Some(ToLowerCase(x[1]))

\* !v for an id: null, undefined and 0 are falsy
Falsy(v) == v = Null \/ v = Some(0)

\* Array.prototype.includes (SameValueZero: undefined is found among undefined)
Includes(seq, v) == \E k \in 1..Len(seq) : seq[k] = v

LastIndexWithId(rows, id) ==
    CHOOSE k \in 1..Len(rows) :
        /\ rows[k].id = id
        /\ \A m \in (k + 1)..Len(rows) : rows[m].id # id

\* Object.fromEntries(rows.map((t) => [t.id, t.name.toLowerCase()])): the last row of an id wins
BuildTeamsMap(rows) ==
    [id \in {rows[k].id : k \in 1..Len(rows)} |->
        ToLowerCase(rows[LastIndexWithId(rows, id)].name)]

\* Object.fromEntries(rows.map((u) => [u.id, u.email]))
BuildUserIdToEmail(rows) ==
    [id \in {rows[k].id : k \in 1..Len(rows)} |-> rows[LastIndexWithId(rows, id)].email]

\* map[key], undefined when the key is missing
Lookup(map, key) == IF key \in DOMAIN map THEN Some(map[key]) ELSE Null

LookupEmail(map, key) == IF key \in DOMAIN map THEN map[key] ELSE Null

LeagueCodeSwapped(competition) ==
    IF competition = Some("ATP Tour") THEN Some(WTA)
    ELSE IF competition = Some("WTA Tour") THEN Some(ATP)
    ELSE Null

\* event.competition === "ATP Tour" ? 1 : event.competition === "WTA Tour" ? 22 : null
LeagueCode(competition) ==
    IF competition = Some("ATP Tour") THEN Some(ATP)
    ELSE IF competition = Some("WTA Tour") THEN Some(WTA)
    ELSE Null

\* !alert.league_id || alert.league_id === (league code of the competition)
TennisMatch(event, alert) ==
    \/ Falsy(alert.league_id)
    \/ alert.league_id = LeagueCode(event.competition)

GenericMatchFirstDetailAsIs(event, alert, tmap) ==
    \/ Falsy(alert.team_id)
    \/ Includes(<<event.event_detail_1, OptLowerCase(event.event_detail_2)>>,
                Lookup(tmap, alert.team_id[1]))

\* !alert.team_id || [d1, d2].map((x) => x?.toLowerCase()).includes(teamsMap[alert.team_id])
GenericMatch(event, alert, tmap) ==
    \/ Falsy(alert.team_id)
    \/ Includes(<<OptLowerCase(event.event_detail_1), OptLowerCase(event.event_detail_2)>>,
                Lookup(tmap, alert.team_id[1]))

AnySport(event, alert) == TRUE

\* the negation of `alert.sport_id !== event.sport_id`
SameSport(event, alert) == alert.sport_id = event.sport_id

\* one iteration of the inner loop: the `continue` and the value of `match`
Match(event, alert, tmap) ==
    /\ SameSport(event, alert)
    /\ IF event.sport_id = TENNIS
       THEN TennisMatch(event, alert)
       ELSE GenericMatch(event, alert, tmap)

ArrayPush(set, e) == Append(set, e)

\* Set.prototype.add: insertion order kept, an element already present is not added again
SetAdd(set, e) == IF Includes(set, e) THEN set ELSE Append(set, e)

MapHas(map, userId) == \E k \in 1..Len(map) : map[k].userId = userId

MapIndex(map, userId) == CHOOSE k \in 1..Len(map) : map[k].userId = userId

\* if (!map.has(u)) map.set(u, new Set()); map.get(u).add(event)
MapAdd(map, userId, e) ==
    LET m1 == IF MapHas(map, userId) THEN map
              ELSE Append(map, [userId |-> userId, events |-> <<>>])
        k == MapIndex(m1, userId)
    IN  [m1 EXCEPT ![k].events = SetAdd(m1[k].events, e)]

\* The pairs in the order the nested loops visit them: events outside, alerts inside.
PairAt(n, nAlerts) == <<((n - 1) \div nAlerts) + 1, ((n - 1) % nAlerts) + 1>>

RECURSIVE MatchLoop(_, _, _, _, _)
MatchLoop(n, evs, alerts, tmap, acc) ==
    IF n > Len(evs) * Len(alerts) THEN acc
    ELSE LET p == PairAt(n, Len(alerts))
             hit == Match(evs[p[1]], alerts[p[2]], tmap)
         IN  MatchLoop(n + 1, evs, alerts, tmap,
                 IF hit
                 THEN [map |-> MapAdd(acc.map, alerts[p[2]].user_id, p[1]),
                       matched |-> acc.matched \cup {p}]
                 ELSE acc)

MatchAll(evs, alerts, tmap) ==
    MatchLoop(1, evs, alerts, tmap, [map |-> <<>>, matched |-> {}])

-----------------------------------------------------------------------------
(* Dispatcher. *)

\* a.start_at || '' as a sort key: the empty string sorts before every timestamp
StartKey(event) == IF event.start_at = Null THEN 0 ELSE event.start_at[1]

RECURSIVE InsertSorted(_, _, _)
InsertSorted(sorted, e, evs) ==
    IF sorted = <<>> THEN <<e>>
    ELSE IF StartKey(evs[e]) < StartKey(evs[Head(sorted)])
         THEN <<e>> \o sorted
         ELSE <<Head(sorted)>> \o InsertSorted(Tail(sorted), e, evs)

RECURSIVE SortLoop(_, _, _)
SortLoop(rest, acc, evs) ==
    IF rest = <<>> THEN acc
    ELSE SortLoop(Tail(rest), InsertSorted(acc, Head(rest), evs), evs)

\* [...eventsSet].sort((a, b) => (a.start_at || '').localeCompare(b.start_at || '')), a stable sort
SortByStartAt(set, evs) == SortLoop(set, <<>>, evs)

EligibleWithoutEmailTest(email, eventsSet) == Len(eventsSet) # 0

\* the negation of `!email || !eventsSet.size`
Eligible(email, eventsSet) == email # Null /\ Len(eventsSet) # 0

OnSendOk(c) == [sent |-> c.sent + 1, failed |-> c.failed]

OnSendErrorCountsBoth(c) == [sent |-> c.sent + 1, failed |-> c.failed + 1]

\* the catch block: failed++
OnSendError(c) == [sent |-> c.sent, failed |-> c.failed + 1]

NeedsBatchDelayInclusive(start, n) == start + BATCH_SIZE <= n

\* i + BATCH_SIZE < usersList.length
NeedsBatchDelay(start, n) == start + BATCH_SIZE < n

Min(a, b) == IF a < b THEN a ELSE b

usersList == userEventsMap

\* usersList.slice(i, i + BATCH_SIZE) ends here
BatchEnd == Min(i + BATCH_SIZE, Len(usersList))

SendEntry(pos, entry, email) ==
    [kind |-> "send", pos |-> pos, userId |-> entry.userId, to |-> email,
     events |-> SortByStartAt(entry.events, events), ms |-> 0]

SleepEntry(pos, ms) ==
    [kind |-> "sleep", pos |-> pos, userId |-> 0, to |-> Null, events |-> <<>>, ms |-> ms]

-----------------------------------------------------------------------------
(* The data a run can read. *)

Event(sport, competition, d1, d2, startAt) ==
    [sport_id |-> sport, competition |-> competition, event_detail_1 |-> d1,
     event_detail_2 |-> d2, start_at |-> startAt]

Alert(user, sport, league, team) ==
    [user_id |-> user, sport_id |-> sport, league_id |-> league, team_id |-> team]

\* Events of one target date, in the order of the query (time ascending).
EventPool ==
    << Event(20, Some("ATP Tour"), Some("Lakers"), Null, Some(1430)),
       Event(7, Some("NBA"), Some("Lakers"), Some("Celtics"), Some(1500)),
       Event(20, Some("WTA Tour"), Null, Null, Some(1100)),
       Event(7, Some("NBA"), Some("Bulls"), Null, Some(1900)),
       Event(20, Some("Roland Garros"), Null, Null, Null),
       Event(7, Null, Some("Celtics"), Some("lakers"), Some(900)),
       Event(9, Some("Ligue 1"), Some("PSG"), Some("OM"), Some(2100)),
       Event(7, Some("NBA"), Null, Null, Null) >>

\* Email alerts of users 1, 2 and 3.
AlertPool ==
    << Alert(1, 20, Null, Null),
       Alert(2, 20, Some(1), Null),
       Alert(1, 20, Some(22), Some(1)),
       Alert(2, 20, Some(5), Null),
       Alert(1, 20, Some(1), Null),
       Alert(2, 7, Null, Null),
       Alert(1, 7, Some(1), Some(1)),
       Alert(2, 7, Null, Some(9)),
       Alert(1, 7, Null, Some(2)),
       Alert(3, 9, Null, Null),
       Alert(2, 7, Null, Some(1)),
       Alert(3, 7, Null, Some(9)) >>

TeamRows == << [id |-> 1, name |-> "Lakers"], [id |-> 2, name |-> "CELTICS"] >>

\* User 1 has an email, user 2 has none, user 3 has no row, user 4 has an email and no alert.
UserRows ==
    << [id |-> 1, email |-> Some(1)], [id |-> 2, email |-> Null], [id |-> 4, email |-> Some(4)] >>

RECURSIVE Pick(_, _)
Pick(pool, indices) ==
    IF indices = {} THEN <<>>
    ELSE LET k == CHOOSE x \in indices : \A y \in indices : x <= y
         IN  <<pool[k]>> \o Pick(pool, indices \ {k})

\* The subsequences of pool of at most n elements.
SubSeqs(pool, n) ==
    {Pick(pool, S) : S \in {T \in SUBSET (1..Len(pool)) : Cardinality(T) <= n}}

Ok(data) == [error |-> FALSE, data |-> data]
Failure == [error |-> TRUE, data |-> Null]

SampleDates ==
    { [year |-> 2024, month |-> 5, day |-> 1], [year |-> 2024, month |-> 2, day |-> 28],
      [year |-> 2023, month |-> 2, day |-> 28], [year |-> 2024, month |-> 12, day |-> 31],
      [year |-> 2024, month |-> 3, day |-> 30], [year |-> 2024, month |-> 10, day |-> 26] }

\* n users, each with one tennis alert; user u has an email unless u is a multiple of gap.
BatchAlerts(n) == [u \in 1..n |-> Alert(u, 20, Null, Null)]
BatchUsers(n, gap) ==
    [u \in 1..n |-> [id |-> u, email |-> IF gap # 0 /\ u % gap = 0 THEN Null ELSE Some(u)]]

InitRest ==
    /\ targetDate = Null
    /\ teamsMap = <<>>
    /\ userIdToEmail = <<>>
    /\ events = <<>>
    /\ matched = {}
    /\ userEventsMap = <<>>
    /\ i = 0
    /\ j = 0
    /\ sent = 0
    /\ failed = 0
    /\ sendResult = "none"
    /\ log = <<>>
    /\ summary = Null
    /\ errorLogged = FALSE
    /\ exitStatus = Null
    /\ pc = "start"

\* Runs over small event and alert lists.
InitMatch ==
    /\ nowParis = [date |-> [year |-> 2024, month |-> 5, day |-> 1], hour |-> 18, minute |-> 0]
    /\ eventsRes \in {Ok(d) : d \in SubSeqs(EventPool, MaxEvents)}
    /\ alertsRes \in {Ok(d) : d \in SubSeqs(AlertPool, MaxAlerts)}
    /\ teamsRes \in {Ok(TeamRows), Ok(<<>>)}
    /\ usersRes = Ok(UserRows)

\* Runs with up to MaxUsers matched users.
InitBatch ==
    /\ nowParis = [date |-> [year |-> 2024, month |-> 5, day |-> 1], hour |-> 18, minute |-> 0]
    /\ eventsRes = Ok(<<EventPool[1]>>)
    /\ teamsRes = Failure
    /\ \E n \in 0..MaxUsers :
           /\ alertsRes = Ok(BatchAlerts(n))
           /\ usersRes \in {Ok(BatchUsers(n, 0)), Ok(BatchUsers(n, 4)), Failure}

\* Runs at every hour of the day.
InitDate ==
    /\ nowParis \in [date : SampleDates, hour : 0..23, minute : {0, 59}]
    /\ eventsRes \in {Ok(<<EventPool[1]>>), Ok(<<>>), Failure}
    /\ alertsRes \in {Ok(<<AlertPool[1]>>), Failure}
    /\ teamsRes = Ok(TeamRows)
    /\ usersRes = Ok(UserRows)

Init == (InitMatch \/ InitBatch \/ InitDate) /\ InitRest

-----------------------------------------------------------------------------
(* main() *)

\* lines 22-50: resolve the target date and issue the six queries
Start ==
    /\ pc = "start"
    /\ targetDate' = Some(ResolveTargetDate(nowParis))
    /\ pc' = "fetching"
    /\ UNCHANGED <<nowParis, eventsRes, teamsRes, alertsRes, usersRes, teamsMap,
                   userIdToEmail, events, matched, userEventsMap, i, j, sent, failed,
                   sendResult, log, summary, errorLogged, exitStatus>>

\* line 52: the events query failed, main() rejects
ThrowEventsError ==
    /\ pc = "fetching"
    /\ eventsRes.error
    /\ pc' = "rejected"
    /\ UNCHANGED <<nowParis, targetDate, eventsRes, teamsRes, alertsRes, usersRes, teamsMap,
                   userIdToEmail, events, matched, userEventsMap, i, j, sent, failed,
                   sendResult, log, summary, errorLogged, exitStatus>>

\* lines 53-56: no event on the target date, main() returns
ReturnNoEvents ==
    /\ pc = "fetching"
    /\ ~eventsRes.error
    /\ Len(eventsRes.data) = 0
    /\ pc' = "resolved"
    /\ UNCHANGED <<nowParis, targetDate, eventsRes, teamsRes, alertsRes, usersRes, teamsMap,
                   userIdToEmail, events, matched, userEventsMap, i, j, sent, failed,
                   sendResult, log, summary, errorLogged, exitStatus>>

\* lines 58-96: the lookup maps, the matching pass, the counters and the loop's start
MatchUsers ==
    /\ pc = "fetching"
    /\ ~eventsRes.error
    /\ Len(eventsRes.data) # 0
    /\ LET tmap == BuildTeamsMap(teamsRes.data)
           res == MatchAll(eventsRes.data, alertsRes.data, tmap)
       IN  /\ teamsMap' = tmap
           /\ userIdToEmail' = BuildUserIdToEmail(usersRes.data)
           /\ events' = eventsRes.data
           /\ userEventsMap' = res.map
           /\ matched' = res.matched
    /\ sent' = 0
    /\ failed' = 0
    /\ i' = 0
    /\ j' = 0
    /\ pc' = "dispatch"
    /\ UNCHANGED <<nowParis, targetDate, eventsRes, teamsRes, alertsRes, usersRes,
                   sendResult, log, summary, errorLogged, exitStatus>>

\* line 101: `continue` for a user without email or without events
SkipUser ==
    /\ pc = "dispatch"
    /\ i + j < BatchEnd
    /\ LET entry == usersList[i + j + 1]
       IN  ~Eligible(LookupEmail(userIdToEmail, entry.userId), entry.events)
    /\ j' = j + 1
    /\ UNCHANGED <<nowParis, targetDate, eventsRes, teamsRes, alertsRes, usersRes, teamsMap,
                   userIdToEmail, events, matched, userEventsMap, i, sent, failed,
                   sendResult, log, summary, errorLogged, exitStatus, pc>>

\* lines 103-112: sort the user's events, render, call sgMail.send
BeginSend ==
    /\ pc = "dispatch"
    /\ i + j < BatchEnd
    /\ LET entry == usersList[i + j + 1]
           email == LookupEmail(userIdToEmail, entry.userId)
       IN  /\ Eligible(email, entry.events)
           /\ log' = Append(log, SendEntry(i + j + 1, entry, email))
    /\ pc' = "sending"
    /\ UNCHANGED <<nowParis, targetDate, eventsRes, teamsRes, alertsRes, usersRes, teamsMap,
                   userIdToEmail, events, matched, userEventsMap, i, j, sent, failed,
                   sendResult, summary, errorLogged, exitStatus>>

\* lines 114-115 and 121: the send succeeded; sent++, then the delay between emails
SendResolved ==
    /\ pc = "sending"
    /\ LET c == OnSendOk([sent |-> sent, failed |-> failed])
       IN  sent' = c.sent /\ failed' = c.failed
    /\ sendResult' = "ok"
    /\ log' = Append(log, SleepEntry(i + j + 1, DELAY_BETWEEN_EMAILS))
    /\ j' = j + 1
    /\ pc' = "dispatch"
    /\ UNCHANGED <<nowParis, targetDate, eventsRes, teamsRes, alertsRes, usersRes, teamsMap,
                   userIdToEmail, events, matched, userEventsMap, i, summary, errorLogged,
                   exitStatus>>

\* lines 116-121: the send threw; the catch block counts it, then the delay between emails
SendRejected ==
    /\ pc = "sending"
    /\ LET c == OnSendError([sent |-> sent, failed |-> failed])
       IN  sent' = c.sent /\ failed' = c.failed
    /\ sendResult' = "error"
    /\ log' = Append(log, SleepEntry(i + j + 1, DELAY_BETWEEN_EMAILS))
    /\ j' = j + 1
    /\ pc' = "dispatch"
    /\ UNCHANGED <<nowParis, targetDate, eventsRes, teamsRes, alertsRes, usersRes, teamsMap,
                   userIdToEmail, events, matched, userEventsMap, i, summary, errorLogged,
                   exitStatus>>

\* lines 124 and 96: the batch is over; the delay between batches if another batch follows
NextBatch ==
    /\ pc = "dispatch"
    /\ i < Len(usersList)
    /\ i + j = BatchEnd
    /\ log' = IF NeedsBatchDelay(i, Len(usersList))
              THEN Append(log, SleepEntry(i + j, DELAY_BETWEEN_BATCHES))
              ELSE log
    /\ i' = i + BATCH_SIZE
    /\ j' = 0
    /\ UNCHANGED <<nowParis, targetDate, eventsRes, teamsRes, alertsRes, usersRes, teamsMap,
                   userIdToEmail, events, matched, userEventsMap, sent, failed, sendResult,
                   summary, errorLogged, exitStatus, pc>>

\* line 127: the loop is over, the DONE line
Summary ==
    /\ pc = "dispatch"
    /\ i >= Len(usersList)
    /\ summary' = Some([sent |-> sent, failed |-> failed])
    /\ pc' = "resolved"
    /\ UNCHANGED <<nowParis, targetDate, eventsRes, teamsRes, alertsRes, usersRes, teamsMap,
                   userIdToEmail, events, matched, userEventsMap, i, j, sent, failed,
                   sendResult, log, errorLogged, exitStatus>>

\* line 356: main().catch(console.error) handles the rejection by logging it
CatchAndLog ==
    /\ pc = "rejected"
    /\ errorLogged' = TRUE
    /\ pc' = "caught"
    /\ UNCHANGED <<nowParis, targetDate, eventsRes, teamsRes, alertsRes, usersRes, teamsMap,
                   userIdToEmail, events, matched, userEventsMap, i, j, sent, failed,
                   sendResult, log, summary, exitStatus>>

\* Nothing is left to run: the process exits with process.exitCode, which the script
\* never sets, so with status 0, whether main() resolved or its rejection was handled.
ProcessExit ==
    /\ pc \in {"resolved", "caught"}
    /\ exitStatus' = Some(0)
    /\ pc' = "exited"
    /\ UNCHANGED <<nowParis, targetDate, eventsRes, teamsRes, alertsRes, usersRes, teamsMap,
                   userIdToEmail, events, matched, userEventsMap, i, j, sent, failed,
                   sendResult, log, summary, errorLogged>>

Next ==
    \/ Start
    \/ ThrowEventsError
    \/ ReturnNoEvents
    \/ MatchUsers
    \/ SkipUser
    \/ BeginSend
    \/ SendResolved
    \/ SendRejected
    \/ NextBatch
    \/ Summary
    \/ CatchAndLog
    \/ ProcessExit

Spec == Init /\ [][Next]_vars

-----------------------------------------------------------------------------
(* What the properties speak of. *)

alerts == alertsRes.data

\* The matching pass ran (events is assigned only after the mandatory check passed).
MatcherRan == events # <<>>

Pairs == (1..Len(events)) \X (1..Len(alerts))

TeamResolves(id) == \E k \in 1..Len(teamsRes.data) : teamsRes.data[k].id = id

TeamName(id) == teamsRes.data[CHOOSE k \in 1..Len(teamsRes.data) : teamsRes.data[k].id = id].name

NamesEqualIgnoringCase(detail, name) ==
    detail # Null /\ ToLowerCase(detail[1]) = ToLowerCase(name)

AllUserIds ==
    {alerts[k].user_id : k \in 1..Len(alerts)} \cup
    {usersRes.data[k].id : k \in 1..Len(usersRes.data)}

HasEmail(u) ==
    \E k \in 1..Len(usersRes.data) : usersRes.data[k].id = u /\ usersRes.data[k].email # Null

HasMatchedEvent(u) == \E p \in matched : alerts[p[2]].user_id = u

EligibleUsers == {u \in AllUserIds : HasEmail(u) /\ HasMatchedEvent(u)}

SendIndices == {k \in 1..Len(log) : log[k].kind = "send"}

Attempts(u) == Cardinality({k \in SendIndices : log[k].userId = u})

LongSleepIndices ==
    {k \in 1..Len(log) : log[k].kind = "sleep" /\ log[k].ms = DELAY_BETWEEN_BATCHES}

ShortSleepIndices ==
    {k \in 1..Len(log) : log[k].kind = "sleep" /\ log[k].ms = DELAY_BETWEEN_EMAILS}

CeilDiv(n, b) == (n + b - 1) \div b

NoDuplicates(seq) == \A a, b \in 1..Len(seq) : a # b => seq[a] # seq[b]

Elements(seq) == {seq[k] : k \in 1..Len(seq)}

-----------------------------------------------------------------------------
(* C1: in the generic branch, an alert whose team_id is set but resolves to no team
   never matches an event of its sport, whatever the event's two details are (absent
   ones included) and also when the teams dataset is empty. *)
C1_UnresolvedTeamNeverMatches ==
    \A p \in matched :
        LET e == events[p[1]]
            a == alerts[p[2]]
        IN  ~(e.sport_id # TENNIS /\ a.team_id # Null /\ ~TeamResolves(a.team_id[1]))

(* C2: among tennis events and tennis alerts, an alert without league_id matches
   every event, league_id 1 exactly the "ATP Tour" events, league_id 22 exactly the
   "WTA Tour" events, any other league_id none; an ATP Tour event alone with a
   league_id 22 alert alone gives no match and no send. *)
C2_TennisMatching ==
    MatcherRan =>
        /\ \A p \in Pairs :
               LET e == events[p[1]]
                   a == alerts[p[2]]
               IN  (e.sport_id = 20 /\ a.sport_id = 20) =>
                       (p \in matched <=>
                           \/ a.league_id = Null
                           \/ a.league_id = <<1>> /\ e.competition = <<"ATP Tour">>
                           \/ a.league_id = <<22>> /\ e.competition = <<"WTA Tour">>)
        /\ ( /\ Len(events) = 1 /\ Len(alerts) = 1
             /\ events[1].sport_id = 20 /\ events[1].competition = <<"ATP Tour">>
             /\ alerts[1].sport_id = 20 /\ alerts[1].league_id = <<22>> )
           => (matched = {} /\ userEventsMap = <<>> /\ SendIndices = {})

C2_Witness ==
    /\ pc = "exited"
    /\ summary # Null
    /\ \E p, q \in Pairs :
           /\ p[1] = q[1]
           /\ events[p[1]].sport_id = 20 /\ events[p[1]].competition = <<"ATP Tour">>
           /\ alerts[p[2]].sport_id = 20 /\ alerts[p[2]].league_id = <<22>>
           /\ alerts[q[2]].sport_id = 20 /\ alerts[q[2]].league_id = <<1>>
           /\ p \notin matched
           /\ q \in matched

(* C3: among events of a non-tennis sport and alerts of the same sport, an alert
   without team_id matches every event, and an alert whose team_id resolves to a team
   matches an event exactly when the lowercased team name equals the lowercased
   event_detail_1 or event_detail_2. *)
C3_GenericMatching ==
    MatcherRan =>
        \A p \in Pairs :
            LET e == events[p[1]]
                a == alerts[p[2]]
            IN  (e.sport_id # 20 /\ a.sport_id = e.sport_id) =>
                    /\ a.team_id = Null => p \in matched
                    /\ (a.team_id # Null /\ TeamResolves(a.team_id[1])) =>
                           (p \in matched <=>
                               \/ NamesEqualIgnoringCase(e.event_detail_1, TeamName(a.team_id[1]))
                               \/ NamesEqualIgnoringCase(e.event_detail_2, TeamName(a.team_id[1])))

C3_Witness ==
    /\ MatcherRan
    /\ \E p, q \in Pairs :
           /\ p[2] = q[2]
           /\ alerts[p[2]].team_id # Null /\ TeamResolves(alerts[p[2]].team_id[1])
           /\ events[p[1]].sport_id # 20 /\ events[p[1]].sport_id = alerts[p[2]].sport_id
           /\ events[q[1]].sport_id = alerts[p[2]].sport_id
           /\ events[p[1]].event_detail_1 # Null
           /\ events[p[1]].event_detail_1[1] # TeamName(alerts[p[2]].team_id[1])
           /\ p \in matched
           /\ q \notin matched

(* C4: a pair whose sport_id values differ never matches, and an event is in a
   user's event set only if that user owns an alert of the event's sport. *)
C4_DifferentSportNeverMatches ==
    /\ \A p \in matched : events[p[1]].sport_id = alerts[p[2]].sport_id
    /\ \A k \in 1..Len(userEventsMap) :
           \A e \in Elements(userEventsMap[k].events) :
               \E a \in 1..Len(alerts) :
                   /\ alerts[a].user_id = userEventsMap[k].userId
                   /\ alerts[a].sport_id = events[e].sport_id

C4_Witness ==
    /\ MatcherRan
    /\ \E k \in 1..Len(userEventsMap), e \in 1..Len(events) :
           /\ e \notin Elements(userEventsMap[k].events)
           /\ \A a \in 1..Len(alerts) :
                  alerts[a].user_id = userEventsMap[k].userId =>
                      /\ alerts[a].sport_id # events[e].sport_id
                      /\ alerts[a].league_id = Null
                      /\ alerts[a].team_id = Null

(* C5: no user is sent to twice, only users with an email and at least one matched
   event are sent to, and once the loop is over each of them was sent to exactly
   once, failed sends included. *)
C5_OneSendPerEligibleUser ==
    \A u \in AllUserIds :
        /\ Attempts(u) <= 1
        /\ Attempts(u) = 1 => u \in EligibleUsers
        /\ (pc \in {"resolved", "exited"} /\ ~eventsRes.error) =>
               (Attempts(u) = 1 <=> u \in EligibleUsers)

C5_Witness ==
    /\ summary # Null
    /\ failed >= 1
    /\ \E u \in EligibleUsers : Attempts(u) = 1
    /\ \E u \in AllUserIds : HasMatchedEvent(u) /\ ~HasEmail(u) /\ Attempts(u) = 0
    /\ \E u \in AllUserIds : HasEmail(u) /\ ~HasMatchedEvent(u) /\ Attempts(u) = 0

\* The step that settles a send: the counters it changes and where the run goes on.
C6_SettledSend ==
    pc = "sending" =>
        /\ pc' = "dispatch"
        /\ j' = j + 1
        /\ sendResult' = "error" => (failed' = failed + 1 /\ sent' = sent)
        /\ sendResult' = "ok" => (sent' = sent + 1 /\ failed' = failed)
        /\ sendResult' \in {"ok", "error"}

\* The counts of the DONE line.
C6_AtSummary ==
    summary # Null =>
        /\ summary[1].sent + summary[1].failed = Cardinality(EligibleUsers)
        /\ \A u \in EligibleUsers : Attempts(u) = 1

(* C6: a failed send adds one to failed, leaves sent alone and the run goes on to the
   next user; a successful send adds one to sent only; at the summary every eligible
   user was attempted and sent + failed is the number of eligible users. *)
C6_FailureIsolation == []C6_AtSummary /\ [][C6_SettledSend]_vars

C6_Witness ==
    /\ summary # Null
    /\ summary[1].failed >= 2
    /\ summary[1].sent >= 2
    /\ Len(usersList) > BATCH_SIZE

(* C7: when the events query reports an error the process ends with a non-zero exit
   status and the error logged; a run that completes ends with status 0. *)
C7_FatalExitsNonZero ==
    pc = "exited" =>
        IF eventsRes.error
        THEN errorLogged /\ exitStatus # <<0>>
        ELSE exitStatus = <<0>>

(* C8 as stated: users go in insertion order, the short delay follows each send, and
   the longer delay is applied exactly ceil(N/B) - 1 times, N the number of users in
   the mapping. *)
C8_DelayCountAsStated ==
    summary # Null =>
        Cardinality(LongSleepIndices) = CeilDiv(Len(usersList), BATCH_SIZE) - 1

(* C8 amended: users go in insertion order in consecutive batches of B, the short
   delay follows each send, and the longer delay is applied after every batch but the
   last: after the users at positions B, 2B, ... below N, that is ceil(N/B) - 1 times
   when N >= 1 and never when the mapping is empty. *)
C8_Batching ==
    LET n == Len(usersList) IN
    /\ \A a, b \in SendIndices : a < b => log[a].pos < log[b].pos
    /\ \A k \in SendIndices :
           /\ usersList[log[k].pos].userId = log[k].userId
           /\ k < Len(log) => (log[k + 1].kind = "sleep" /\ log[k + 1].ms = 600)
           /\ k = Len(log) => pc = "sending"
    /\ \A k \in ShortSleepIndices : k > 1 /\ log[k - 1].kind = "send"
    /\ \A k \in LongSleepIndices :
           /\ log[k].pos % BATCH_SIZE = 0
           /\ log[k].pos < n
           /\ \A m \in SendIndices : (m < k <=> log[m].pos <= log[k].pos)
           /\ \A m \in LongSleepIndices : m # k => log[m].pos # log[k].pos
    /\ summary # Null =>
           /\ {log[k].pos : k \in LongSleepIndices} = {m \in 1..(n - 1) : m % BATCH_SIZE = 0}
           /\ Cardinality(LongSleepIndices) = (IF n = 0 THEN 0 ELSE CeilDiv(n, BATCH_SIZE) - 1)
           /\ {log[k].userId : k \in SendIndices} = EligibleUsers

C8_Witness ==
    /\ summary # Null
    /\ Len(usersList) = 12
    /\ BATCH_SIZE = 5
    /\ Cardinality(SendIndices) = 12
    /\ {log[k].pos : k \in LongSleepIndices} = {5, 10}
    /\ Cardinality(LongSleepIndices) = 2
    /\ log[11].ms = 2000 /\ log[22].ms = 2000
    /\ Len(log) = 26

(* C9: a user's event set holds no event twice: an event that qualifies through
   several alerts of the user is once in the set and once in the sorted list handed
   to the renderer, which holds the events of the set in start order. *)
C9_NoDuplicateEvents ==
    /\ \A k \in 1..Len(userEventsMap) :
           /\ NoDuplicates(userEventsMap[k].events)
           /\ \A e \in 1..Len(events) :
                  (\E p \in matched : p[1] = e /\ alerts[p[2]].user_id = userEventsMap[k].userId)
                      => Cardinality({x \in 1..Len(userEventsMap[k].events) :
                                          userEventsMap[k].events[x] = e}) = 1
    /\ \A k \in SendIndices :
           /\ NoDuplicates(log[k].events)
           /\ Elements(log[k].events) = Elements(usersList[log[k].pos].events)
           /\ Len(log[k].events) = Cardinality({p[1] : p \in {q \in matched :
                                        alerts[q[2]].user_id = log[k].userId}})
           /\ \A a, b \in 1..Len(log[k].events) :
                  a < b => StartKey(events[log[k].events[a]]) <= StartKey(events[log[k].events[b]])

C9_Witness ==
    /\ \E p, q \in matched :
           /\ p[1] = q[1]
           /\ p[2] # q[2]
           /\ alerts[p[2]].user_id = alerts[q[2]].user_id
           /\ \E k \in SendIndices :
                  /\ log[k].userId = alerts[p[2]].user_id
                  /\ Len(log[k].events) = 2
                  /\ p[1] \in Elements(log[k].events)
                  /\ log[k].events[1] > log[k].events[2]

(* C10: the target date is today's local date exactly when the local hour is below 6
   and tomorrow's otherwise, whatever the date and the minute. *)
C10_TargetDate ==
    pc # "start" =>
        /\ targetDate # Null
        /\ (targetDate[1] = nowParis.date) <=> (nowParis.hour < 6)
        /\ (targetDate[1] # nowParis.date) => targetDate[1] = PlusOneDay(nowParis.date)
        /\ targetDate[1] \in {nowParis.date, PlusOneDay(nowParis.date)}

C10_Witness ==
    /\ pc = "fetching"
    /\ nowParis.hour = 6
    /\ nowParis.minute = 0
    /\ nowParis.date = [year |-> 2024, month |-> 12, day |-> 31]
    /\ targetDate = <<[year |-> 2025, month |-> 1, day |-> 1]>>

====
